---- MODULE Spec2Model ----
(***************************************************************************)
(* Model of the ChatBuddy content script: the ToxicityAnalyzer class       *)
(* (message extraction, conversation buffer, throttled analysis cycle,     *)
(* response parsing, streak counter and widget state).                     *)
(*                                                                         *)
(* A JavaScript string is modelled as a sequence of one-character strings, *)
(* so that length, trim, startsWith, includes and split are computed and   *)
(* not assumed.                                                            *)
(***************************************************************************)
EXTENDS Integers, Sequences, FiniteSets, TLC

(***************************************************************************)
(* Bounds of the model.                                                    *)
(***************************************************************************)
\* number of clock steps explored
MaxTicks == 2
\* milliseconds added to Date.now() by one clock step
TickMs == 5000
\* Date.now() when the content script is constructed
StartTime == 20000

(***************************************************************************)
(* Program constants.                                                      *)
(***************************************************************************)
DefaultMessageCount == 10
DefaultAnalysisDelay == 10
MsPerSecond == 1000
MinTextLength == 2
MaxTextLength == 300

(***************************************************************************)
(* String primitives of JavaScript used by the program.                    *)
(***************************************************************************)
Digits == {"0", "1", "2", "3", "4", "5", "6", "7", "8", "9"}

\* the characters String.prototype.trim removes and \s matches
Whitespace == {" ", "\t", "\n", "\r"}

\* s.includes(sub)
Includes(s, sub) ==
    \/ sub = <<>>
    \/ \E i \in 1..(Len(s) - Len(sub) + 1) :
          /\ s[i] = sub[1]
          /\ SubSeq(s, i, i + Len(sub) - 1) = sub

\* s.startsWith(prefix)
StartsWith(s, prefix) ==
    /\ Len(s) >= Len(prefix)
    /\ SubSeq(s, 1, Len(prefix)) = prefix

RECURSIVE TrimStart(_)
TrimStart(s) ==
    IF s # <<>> /\ Head(s) \in Whitespace THEN TrimStart(Tail(s)) ELSE s

RECURSIVE TrimEnd(_)
TrimEnd(s) ==
    IF s # <<>> /\ s[Len(s)] \in Whitespace
    THEN TrimEnd(SubSeq(s, 1, Len(s) - 1))
    ELSE s

\* a trim that leaves trailing whitespace in place
Trim_LeadingOnly(s) == TrimStart(s)

\* s.trim()
Trim(s) == TrimEnd(TrimStart(s))

\* the positions of s that hold the separator
SeparatorPositions(s, sep) == {i \in 1..Len(s) : s[i] = sep}

\* the k-th separator position of s; 0 before the first, Len(s) + 1 after the last
SeparatorAt(s, sep, k) ==
    LET P == SeparatorPositions(s, sep)
    IN  IF k = 0 THEN 0
        ELSE IF k > Cardinality(P) THEN Len(s) + 1
        ELSE CHOOSE p \in P : Cardinality({q \in P : q < p}) = k - 1

\* s.split(sep) for a one-character separator: the pieces, in order
Split(s, sep) ==
    [k \in 1..(Cardinality(SeparatorPositions(s, sep)) + 1) |->
        SubSeq(s, SeparatorAt(s, sep, k - 1) + 1, SeparatorAt(s, sep, k) - 1)]

\* s.replace(prefix, '') for a string s that starts with prefix
StripPrefix(s, prefix) == SubSeq(s, Len(prefix) + 1, Len(s))

\* array.includes(x)
ArrayIncludes(arr, x) == \E i \in 1..Len(arr) : arr[i] = x

(***************************************************************************)
(* isUserMessage: the noise filter.                                        *)
(***************************************************************************)
\* text.match(/^\d{1,2}[:.]\d{2}/)
MatchesLeadingTime(text) ==
    \/ /\ Len(text) >= 4
       /\ text[1] \in Digits
       /\ text[2] \in {":", "."}
       /\ text[3] \in Digits
       /\ text[4] \in Digits
    \/ /\ Len(text) >= 5
       /\ text[1] \in Digits
       /\ text[2] \in Digits
       /\ text[3] \in {":", "."}
       /\ text[4] \in Digits
       /\ text[5] \in Digits

\* text.match(/^[\d\s:apm]+$/i)
MatchesOnlyTime(text) ==
    /\ Len(text) >= 1
    /\ \A i \in 1..Len(text) :
          text[i] \in Digits \cup Whitespace \cup {":", "a", "p", "m", "A", "P", "M"}

\* a filter without the test for "@"
isUserMessage_NoMentionCheck(text) ==
    /\ text # <<>>
    /\ Len(text) > MinTextLength
    /\ Len(text) < MaxTextLength
    /\ ~MatchesLeadingTime(text)
    /\ ~MatchesOnlyTime(text)
    /\ ~Includes(text, <<"h", "t", "t", "p">>)
    /\ Len(Split(text, " ")) > 1

isUserMessage(text) ==
    /\ text # <<>>
    /\ Len(text) > MinTextLength
    /\ Len(text) < MaxTextLength
    /\ ~MatchesLeadingTime(text)
    /\ ~MatchesOnlyTime(text)
    /\ ~Includes(text, <<"h", "t", "t", "p">>)
    /\ ~Includes(text, <<"@">>)
    /\ Len(Split(text, " ")) > 1

(***************************************************************************)
(* Platform detection and per-platform text extraction.                    *)
(***************************************************************************)
WhatsAppHost ==
    <<"w", "e", "b", ".", "w", "h", "a", "t", "s", "a", "p", "p", ".", "c",
      "o", "m">>

MessengerHost ==
    <<"m", "e", "s", "s", "e", "n", "g", "e", "r", ".", "c", "o", "m">>

TelegramHost ==
    <<"w", "e", "b", ".", "t", "e", "l", "e", "g", "r", "a", "m", ".", "o",
      "r", "g">>

DiscordHost ==
    <<"d", "i", "s", "c", "o", "r", "d", ".", "c", "o", "m">>

\* detectPlatform, on the page URL
detectPlatform(url) ==
    IF Includes(url, WhatsAppHost) THEN "whatsapp"
    ELSE IF Includes(url, MessengerHost) THEN "messenger"
    ELSE IF Includes(url, TelegramHost) THEN "telegram"
    ELSE IF Includes(url, DiscordHost) THEN "discord"
    ELSE "unknown"

(* A DOM node is [nodeType, textContent, elements]: elements are the        *)
(* textContent of the descendants that the selectors of the page's platform *)
(* match, in the order the selector loops visit them.                       *)

\* the selector loops shared by the four extract<Platform>Message methods:
\* the text of the first matched element that passes the filter, else the
\* node's own text
RECURSIVE FirstUserMessage(_, _)
FirstUserMessage(elements, fallback) ==
    IF elements = <<>> THEN fallback
    ELSE IF Head(elements) # <<>> /\ isUserMessage(Head(elements))
         THEN Head(elements)
         ELSE FirstUserMessage(Tail(elements), fallback)

extractWhatsAppMessage(node) == FirstUserMessage(node.elements, node.textContent)

extractMessengerMessage(node) == FirstUserMessage(node.elements, node.textContent)

extractTelegramMessage(node) == FirstUserMessage(node.elements, node.textContent)

extractDiscordMessage(node) == FirstUserMessage(node.elements, node.textContent)

\* extractMessageText: the trimmed text pulled out of an added node
extractMessageText(node, url) ==
    LET platform == detectPlatform(url)
        text == CASE platform = "whatsapp" -> extractWhatsAppMessage(node)
                  [] platform = "messenger" -> extractMessengerMessage(node)
                  [] platform = "telegram" -> extractTelegramMessage(node)
                  [] platform = "discord" -> extractDiscordMessage(node)
                  [] OTHER -> node.textContent
    IN  IF text # <<>> THEN Trim(text) ELSE <<>>

\* Set.add followed by Array.from: insertion order, first occurrence kept
SetAdd(messages, text) ==
    IF ArrayIncludes(messages, text) THEN messages ELSE Append(messages, text)

\* the addedNodes.forEach of one mutation
RECURSIVE AddNodes(_, _, _)
AddNodes(messages, nodes, url) ==
    IF nodes = <<>> THEN messages
    ELSE LET node == Head(nodes)
             text == extractMessageText(node, url)
             next == IF node.nodeType = "element"
                        /\ text # <<>> /\ isUserMessage(text)
                     THEN SetAdd(messages, text)
                     ELSE messages
         IN  AddNodes(next, Tail(nodes), url)

\* the mutations.forEach of extractNewMessages
RECURSIVE AddMutations(_, _, _)
AddMutations(messages, mutations, url) ==
    IF mutations = <<>> THEN messages
    ELSE LET mutation == Head(mutations)
             next == IF mutation.type = "childList"
                     THEN AddNodes(messages, mutation.addedNodes, url)
                     ELSE messages
         IN  AddMutations(next, Tail(mutations), url)

\* extractNewMessages: the candidate messages of a batch, deduplicated
extractNewMessages(mutations, url) == AddMutations(<<>>, mutations, url)

(***************************************************************************)
(* Inputs: page URLs, texts and DOM mutations.                             *)
(***************************************************************************)
WhatsAppUrl ==
    <<"h", "t", "t", "p", "s", ":", "/", "/", "w", "e", "b", ".", "w", "h",
      "a", "t", "s", "a", "p", "p", ".", "c", "o", "m", "/">>

OtherUrl ==
    <<"h", "t", "t", "p", "s", ":", "/", "/", "c", "h", "a", "t", ".", "e",
      "x", "a", "m", "p", "l", "e", ".", "o", "r", "g", "/">>

Urls == {WhatsAppUrl, OtherUrl}

HiThere ==
    <<"h", "i", " ", "t", "h", "e", "r", "e">>

HowAreYou ==
    <<"h", "o", "w", " ", "a", "r", "e", " ", "y", "o", "u">>

FineThanks ==
    <<"i", " ", "a", "m", " ", "f", "i", "n", "e", " ", "t", "h", "a", "n",
      "k", "s">>

\* trims to HiThere
HiTherePadded ==
    <<" ", "h", "i", " ", "t", "h", "e", "r", "e", " ">>

\* a leading clock time
ClockText ==
    <<"1", "2", ":", "3", "0", " ", "p", "m">>

\* digits, spaces and a/p/m only
OnlyTimeText ==
    <<"1", "0", " ", "a", "m">>

\* fewer than 3 characters
ShortText ==
    <<"o", "k">>

\* a single token
OneWord ==
    <<"h", "e", "l", "l", "o">>

\* contains http
LinkText ==
    <<"s", "e", "e", " ", "h", "t", "t", "p", " ", "x">>

\* contains @
MentionText ==
    <<"m", "e", " ", "@", " ", "y", "o", "u">>

\* passes the filter untrimmed, fails it trimmed
PaddedShort ==
    <<" ", "o", "k", " ">>

\* a two-token text of MaxTextLength characters
LongText == [i \in 1..MaxTextLength |-> IF i = 3 THEN " " ELSE "x"]

ElementNode(text, elements) ==
    [nodeType |-> "element", textContent |-> text, elements |-> elements]

TextNode(text) ==
    [nodeType |-> "text", textContent |-> text, elements |-> <<>>]

ChildList(nodes) == [type |-> "childList", addedNodes |-> nodes]

CharacterData == [type |-> "characterData", addedNodes |-> <<>>]

\* the batches of mutation records the observer callback is handed
Batches ==
    { <<ChildList(<<ElementNode(HiThere, <<>>)>>)>>,
      <<ChildList(<<ElementNode(HowAreYou, <<>>)>>)>>,
      <<ChildList(<<ElementNode(FineThanks, <<>>)>>)>>,
      <<ChildList(<<ElementNode(HiTherePadded, <<>>),
                    ElementNode(HowAreYou, <<>>),
                    ElementNode(HiThere, <<>>)>>)>>,
      <<ChildList(<<ElementNode(ClockText, <<ShortText, FineThanks>>),
                    ElementNode(HowAreYou, <<PaddedShort, HiThere>>)>>)>>,
      <<ChildList(<<ElementNode(OnlyTimeText, <<>>),
                    ElementNode(OneWord, <<>>),
                    ElementNode(LinkText, <<>>),
                    ElementNode(MentionText, <<>>),
                    ElementNode(LongText, <<>>),
                    TextNode(FineThanks)>>),
        CharacterData>>,
      <<ChildList(<<ElementNode(HiThere, <<>>)>>),
        ChildList(<<ElementNode(HowAreYou, <<>>),
                    ElementNode(FineThanks, <<>>)>>)>> }

(***************************************************************************)
(* parseAnalysis: the tolerant line parser of the model's reply.           *)
(***************************************************************************)
LevelLabel ==
    <<"L", "e", "v", "e", "l", ":">>

ToxicPersonLabel ==
    <<"T", "o", "x", "i", "c", "P", "e", "r", "s", "o", "n", ":">>

BehaviorsLabel ==
    <<"B", "e", "h", "a", "v", "i", "o", "r", "s", ":">>

ProblemLabel ==
    <<"P", "r", "o", "b", "l", "e", "m", ":">>

SuggestionLabel ==
    <<"S", "u", "g", "g", "e", "s", "t", "i", "o", "n", ":">>

Low ==
    <<"L", "o", "w">>

Medium ==
    <<"M", "e", "d", "i", "u", "m">>

High ==
    <<"H", "i", "g", "h">>

None ==
    <<"N", "o", "n", "e">>

PersonA ==
    <<"P", "e", "r", "s", "o", "n", " ", "A">>

PersonB ==
    <<"P", "e", "r", "s", "o", "n", " ", "B">>

Both ==
    <<"B", "o", "t", "h">>

\* a sentinel that is the whole default phrase
NoToxicBehaviors_Detected ==
    <<"N", "o", " ", "t", "o", "x", "i", "c", " ", "b", "e", "h", "a", "v",
      "i", "o", "r", "s", " ", "d", "e", "t", "e", "c", "t", "e", "d">>

NoToxicBehaviors ==
    <<"N", "o", " ", "t", "o", "x", "i", "c", " ", "b", "e", "h", "a", "v",
      "i", "o", "r", "s">>

NoToxicBehaviorsDetected ==
    <<"N", "o", " ", "t", "o", "x", "i", "c", " ", "b", "e", "h", "a", "v",
      "i", "o", "r", "s", " ", "d", "e", "t", "e", "c", "t", "e", "d">>

NoSignificantIssues ==
    <<"N", "o", " ", "s", "i", "g", "n", "i", "f", "i", "c", "a", "n", "t",
      " ", "i", "s", "s", "u", "e", "s">>

KeepUpGoodCommunication ==
    <<"K", "e", "e", "p", " ", "u", "p", " ", "t", "h", "e", " ", "g", "o",
      "o", "d", " ", "c", "o", "m", "m", "u", "n", "i", "c", "a", "t", "i",
      "o", "n">>

\* a list of levels with one more entry
Levels_WithSevere == <<Low, Medium, High, None, <<"S", "e", "v", "e", "r", "e">> >>

Levels == <<Low, Medium, High, None>>

ToxicPersons == <<PersonA, PersonB, Both, None>>

\* a starting record whose problem is the empty string
DefaultResult_EmptyProblem ==
    [level |-> None,
     toxicPerson |-> None,
     behaviors |-> <<NoToxicBehaviorsDetected>>,
     problem |-> <<>>,
     suggestion |-> KeepUpGoodCommunication]

\* the record parseAnalysis starts from
DefaultResult ==
    [level |-> None,
     toxicPerson |-> None,
     behaviors |-> <<NoToxicBehaviorsDetected>>,
     problem |-> NoSignificantIssues,
     suggestion |-> KeepUpGoodCommunication]

\* behaviors.split(',').map(b => b.trim()).filter(b => b)
RECURSIVE TrimAndDropEmpty(_)
TrimAndDropEmpty(items) ==
    IF items = <<>> THEN <<>>
    ELSE LET b == Trim(Head(items))
         IN  (IF b # <<>> THEN <<b>> ELSE <<>>) \o TrimAndDropEmpty(Tail(items))

\* the body of lines.forEach in parseAnalysis
ParseLine(result, line) ==
    LET cleanLine == Trim(line)
    IN  IF StartsWith(cleanLine, LevelLabel)
        THEN LET level == Trim(StripPrefix(cleanLine, LevelLabel))
             IN  [result EXCEPT !.level =
                     IF ArrayIncludes(Levels, level) THEN level ELSE None]
        ELSE IF StartsWith(cleanLine, ToxicPersonLabel)
        THEN LET person == Trim(StripPrefix(cleanLine, ToxicPersonLabel))
             IN  [result EXCEPT !.toxicPerson =
                     IF ArrayIncludes(ToxicPersons, person) THEN person ELSE None]
        ELSE IF StartsWith(cleanLine, BehaviorsLabel)
        THEN LET behaviors == Trim(StripPrefix(cleanLine, BehaviorsLabel))
             IN  IF behaviors # <<>> /\ ~Includes(behaviors, NoToxicBehaviors)
                 THEN [result EXCEPT !.behaviors =
                          TrimAndDropEmpty(Split(behaviors, ","))]
                 ELSE result
        ELSE IF StartsWith(cleanLine, ProblemLabel)
        THEN LET problem == Trim(StripPrefix(cleanLine, ProblemLabel))
             IN  IF problem # <<>> /\ ~Includes(problem, NoSignificantIssues)
                 THEN [result EXCEPT !.problem = problem]
                 ELSE result
        ELSE IF StartsWith(cleanLine, SuggestionLabel)
        THEN LET suggestion == Trim(StripPrefix(cleanLine, SuggestionLabel))
             IN  IF suggestion # <<>>
                    /\ ~Includes(suggestion, KeepUpGoodCommunication)
                 THEN [result EXCEPT !.suggestion = suggestion]
                 ELSE result
        ELSE result

RECURSIVE ParseLines(_, _)
ParseLines(result, lines) ==
    IF lines = <<>> THEN result
    ELSE ParseLines(ParseLine(result, Head(lines)), Tail(lines))

parseAnalysis(analysis) == ParseLines(DefaultResult, Split(analysis, "\n"))

\* the streak a result needs before the positive variant is rendered
HealthyStreak == 2

\* a render that takes one clean result for a streak
renderAnalysis_AnyStreak(analysis, consecutive) ==
    IF consecutive >= 1 /\ analysis.level = None
    THEN "healthy"
    ELSE "detail"

\* renderAnalysis: which variant of the widget body is produced
renderAnalysis(analysis, consecutive) ==
    IF consecutive >= HealthyStreak /\ analysis.level = None
    THEN "healthy"
    ELSE "detail"

(***************************************************************************)
(* Replies of the remote model.                                            *)
(***************************************************************************)
Sp == <<" ">>

RECURSIVE JoinLines(_)
JoinLines(lines) ==
    IF lines = <<>> THEN <<>>
    ELSE IF Len(lines) = 1 THEN Head(lines)
    ELSE Head(lines) \o <<"\n">> \o JoinLines(Tail(lines))

Insults ==
    <<"i", "n", "s", "u", "l", "t", "s", ",", " ", "s", "a", "r", "c", "a",
      "s", "m">>

CalledNames ==
    <<"c", "a", "l", "l", "e", "d", " ", "o", "t", "h", "e", "r", " ", "p",
      "e", "r", "s", "o", "n", " ", "n", "a", "m", "e", "s">>

UseRespect ==
    <<"u", "s", "e", " ", "r", "e", "s", "p", "e", "c", "t", "f", "u", "l",
      " ", "l", "a", "n", "g", "u", "a", "g", "e">>

Refusal ==
    <<"S", "o", "r", "r", "y", ",", " ", "I", " ", "c", "a", "n", "n", "o",
      "t", " ", "h", "e", "l", "p">>

ToxicReply ==
    JoinLines(<<LevelLabel \o Sp \o High,
                ToxicPersonLabel \o Sp \o PersonA,
                BehaviorsLabel \o Sp \o Insults,
                ProblemLabel \o Sp \o CalledNames,
                SuggestionLabel \o Sp \o UseRespect>>)

CleanReply ==
    JoinLines(<<LevelLabel \o Sp \o None,
                ToxicPersonLabel \o Sp \o None,
                BehaviorsLabel \o Sp \o NoToxicBehaviorsDetected,
                ProblemLabel \o Sp \o NoSignificantIssues,
                SuggestionLabel \o Sp \o KeepUpGoodCommunication>>)

\* level None with a person named
MixedReply ==
    JoinLines(<<LevelLabel \o Sp \o None, ToxicPersonLabel \o Sp \o PersonB>>)

ReplyTexts == {ToxicReply, CleanReply, MixedReply, Refusal}

(* What the transport hands back to sendToGemini: rejected is a fetch that  *)
(* throws, ok is response.ok, error is a data.error payload, text is        *)
(* candidates[0].content.parts[0].text, empty when it is absent.            *)
Responses ==
    { [rejected |-> FALSE, ok |-> TRUE, error |-> FALSE, text |-> t] :
          t \in ReplyTexts }
    \cup
    { [rejected |-> TRUE, ok |-> FALSE, error |-> FALSE, text |-> <<>>],
      [rejected |-> FALSE, ok |-> FALSE, error |-> FALSE, text |-> CleanReply],
      [rejected |-> FALSE, ok |-> TRUE, error |-> TRUE, text |-> <<>>],
      [rejected |-> FALSE, ok |-> TRUE, error |-> FALSE, text |-> <<>>] }

\* sendToGemini after the transport answers: TRUE when it throws
\* a client that does not look at the transport status
sendToGeminiThrows_IgnoresStatus(response) ==
    \/ response.rejected
    \/ response.error
    \/ response.text = <<>>

sendToGeminiThrows(response) ==
    \/ response.rejected
    \/ ~response.ok
    \/ response.error
    \/ response.text = <<>>

(***************************************************************************)
(* State of the ToxicityAnalyzer, its widget and its environment.          *)
(***************************************************************************)
VARIABLES
    isActive,                  \* this.isActive
    settings,                  \* this.settings; a field that is 0 is unset
    lastAnalysisTime,          \* this.lastAnalysisTime, ms
    messageBuffer,             \* this.messageBuffer
    analysisInProgress,        \* this.analysisInProgress
    consecutiveEmptyAnalyses,  \* this.consecutiveEmptyAnalyses
    observer,                  \* TRUE while this.observer is connected
    hidden,                    \* the widget carries the class toxicity-hidden
    content,                   \* what .toxicity-content shows
    now,                       \* Date.now(), ms
    calls,                     \* the sendToGemini calls not yet settled
    lastEvent,                 \* history: the handler that ran last
    rawText,                   \* a text handed to parseAnalysis on its own
    parsedRecord,              \* what parseAnalysis returned for it, if it ran
    writtenFields,             \* history: the fields rawText was written from
    filterText,                \* a text handed to isUserMessage on its own
    filterVerdict,             \* what isUserMessage returned for it, if it ran
    conversation,              \* the buffer formatConversation ran on, then its transcript
    apiResponse,               \* what the transport answers to a lone call
    ws,                        \* RedditAnalysisReceiver: state of this.ws
    isConnected,               \* RedditAnalysisReceiver: this.isConnected
    reconnectTimers,           \* due times of the pending reconnect timeouts
    connectAttempts,           \* calls of connect() so far
    indicator,                 \* the payload whose indicator is in the page, 0 if none
    indicatorBody,             \* TRUE while that indicator still has its content
    dismissTimers,             \* pending auto-remove timeouts: payload and due time
    payloads,                  \* payloads displayed so far
    clock,                     \* the time of the receiver's timers, ms
    relayEvent                 \* history: the receiver's handler that ran last

\* the argument and the result of parseAnalysis when it is run on its own
parserVars == <<rawText, parsedRecord, writtenFields>>

\* the argument and the result of isUserMessage when it is run on its own
filterVars == <<filterText, filterVerdict>>

\* the state of the RedditAnalysisReceiver
relayVars ==
    <<ws, isConnected, reconnectTimers, connectAttempts, indicator,
      indicatorBody, dismissTimers, payloads, clock, relayEvent>>

\* what lies outside the ToxicityAnalyzer
componentVars ==
    <<parserVars, filterVars, conversation, apiResponse, relayVars>>

vars ==
    <<isActive, settings, lastAnalysisTime, messageBuffer, analysisInProgress,
      consecutiveEmptyAnalyses, observer, hidden, content, now, calls, lastEvent,
      rawText, parsedRecord, writtenFields, filterText, filterVerdict,
      conversation, apiResponse, ws, isConnected, reconnectTimers,
      connectAttempts, indicator, indicatorBody, dismissTimers, payloads, clock,
      relayEvent>>

\* the settings payloads a startAnalysis message carries
SettingsChoices ==
    [messageCount : {0, 2}, analysisDelay : {0, 5}]

Event(op, newMessages, fired, outcome, stale) ==
    [op |-> op, newMessages |-> newMessages, fired |-> fired,
     outcome |-> outcome, stale |-> stale]

\* the constructor and init()
Constructed ==
    /\ isActive = FALSE
    /\ settings = [messageCount |-> 0, analysisDelay |-> 0]
    /\ lastAnalysisTime = 0
    /\ messageBuffer = <<>>
    /\ analysisInProgress = FALSE
    /\ consecutiveEmptyAnalyses = 0
    /\ observer = FALSE
    /\ hidden = TRUE
    /\ content = "listening"
    /\ now = StartTime
    /\ calls = <<>>
    /\ lastEvent = Event("init", <<>>, FALSE, "none", FALSE)

\* parseAnalysis has not been handed a text on its own
ParserIdle ==
    /\ rawText = <<>>
    /\ parsedRecord = <<>>
    /\ writtenFields = <<>>

\* isUserMessage has not been handed a text on its own
FilterIdle ==
    /\ filterText = <<>>
    /\ filterVerdict = <<>>

\* formatConversation and sendToGemini have not run on their own
HelpersIdle ==
    /\ conversation = <<>>
    /\ apiResponse = <<>>

\* no RedditAnalysisReceiver has been constructed
RelayIdle ==
    /\ ws = "none"
    /\ isConnected = FALSE
    /\ reconnectTimers = {}
    /\ connectAttempts = 0
    /\ indicator = 0
    /\ indicatorBody = FALSE
    /\ dismissTimers = {}
    /\ payloads = 0
    /\ clock = 0
    /\ relayEvent = "none"

Init ==
    /\ Constructed
    /\ ParserIdle
    /\ FilterIdle
    /\ HelpersIdle
    /\ RelayIdle

(***************************************************************************)
(* startAnalysis and stopAnalysis.                                         *)
(***************************************************************************)
startAnalysis(s) ==
    /\ UNCHANGED componentVars
    /\ isActive' = TRUE
    /\ settings' = s
    /\ observer' = TRUE
    /\ content' = "message"
    /\ hidden' = FALSE
    /\ lastEvent' = Event("start", <<>>, FALSE, "none", FALSE)
    /\ UNCHANGED <<lastAnalysisTime, messageBuffer, analysisInProgress,
                   consecutiveEmptyAnalyses, now, calls>>

\* a stop that also released the in-flight gate
stopAnalysis_ReleasesGate ==
    /\ UNCHANGED componentVars
    /\ isActive' = FALSE
    /\ observer' = FALSE
    /\ hidden' = TRUE
    /\ messageBuffer' = <<>>
    /\ consecutiveEmptyAnalyses' = 0
    /\ analysisInProgress' = FALSE
    /\ calls' = [i \in 1..Len(calls) |-> [calls[i] EXCEPT !.stale = TRUE]]
    /\ lastEvent' = Event("stop", <<>>, FALSE, "none", FALSE)
    /\ UNCHANGED <<settings, lastAnalysisTime, content, now>>

\* a stop that leaves the buffer as it is
stopAnalysis_KeepsBuffer ==
    /\ UNCHANGED componentVars
    /\ isActive' = FALSE
    /\ observer' = FALSE
    /\ hidden' = TRUE
    /\ consecutiveEmptyAnalyses' = 0
    /\ calls' = [i \in 1..Len(calls) |-> [calls[i] EXCEPT !.stale = TRUE]]
    /\ lastEvent' = Event("stop", <<>>, FALSE, "none", FALSE)
    /\ UNCHANGED <<settings, lastAnalysisTime, analysisInProgress, content, now,
                   messageBuffer>>

\* a stop that keeps the most recent message
stopAnalysis_KeepsLast ==
    /\ UNCHANGED componentVars
    /\ isActive' = FALSE
    /\ observer' = FALSE
    /\ hidden' = TRUE
    /\ messageBuffer' = IF messageBuffer = <<>> THEN <<>>
                        ELSE <<messageBuffer[Len(messageBuffer)]>>
    /\ consecutiveEmptyAnalyses' = 0
    /\ calls' = [i \in 1..Len(calls) |-> [calls[i] EXCEPT !.stale = TRUE]]
    /\ lastEvent' = Event("stop", <<>>, FALSE, "none", FALSE)
    /\ UNCHANGED <<settings, lastAnalysisTime, analysisInProgress, content, now>>

stopAnalysis ==
    /\ UNCHANGED componentVars
    /\ isActive' = FALSE
    /\ observer' = FALSE
    /\ hidden' = TRUE
    /\ messageBuffer' = <<>>
    /\ consecutiveEmptyAnalyses' = 0
    /\ calls' = [i \in 1..Len(calls) |-> [calls[i] EXCEPT !.stale = TRUE]]
    /\ lastEvent' = Event("stop", <<>>, FALSE, "none", FALSE)
    /\ UNCHANGED <<settings, lastAnalysisTime, analysisInProgress, content, now>>

(***************************************************************************)
(* The MutationObserver callback and analyzeConversation.                  *)
(***************************************************************************)
\* a push without the duplicate test
PushMessage_NoDedup(buffer, msg) ==
    IF isUserMessage(msg) THEN Append(buffer, msg) ELSE buffer

\* an unshift in place of the push
PushMessage_Prepend(buffer, msg) ==
    IF ~ArrayIncludes(buffer, msg) /\ isUserMessage(msg)
    THEN <<msg>> \o buffer
    ELSE buffer

\* the body of newMessages.forEach
PushMessage(buffer, msg) ==
    IF ~ArrayIncludes(buffer, msg) /\ isUserMessage(msg)
    THEN Append(buffer, msg)
    ELSE buffer

RECURSIVE PushMessages(_, _)
PushMessages(buffer, msgs) ==
    IF msgs = <<>> THEN buffer
    ELSE PushMessages(PushMessage(buffer, Head(msgs)), Tail(msgs))

\* this.settings.messageCount || 10
maxMessages(s) ==
    IF s.messageCount # 0 THEN s.messageCount ELSE DefaultMessageCount

\* (this.settings.analysisDelay || 10) * 1000
delayMs(s) ==
    (IF s.analysisDelay # 0 THEN s.analysisDelay ELSE DefaultAnalysisDelay)
        * MsPerSecond

\* if (length > maxMessages) buffer = buffer.slice(-maxMessages)
KeepRecent(buffer, max) ==
    IF Len(buffer) > max
    THEN SubSeq(buffer, Len(buffer) - max + 1, Len(buffer))
    ELSE buffer

\* a throttle that lets a batch through at exactly the delay
ThrottleElapsed_NonStrict(t, last, s) == t - last >= delayMs(s)

\* now - this.lastAnalysisTime > delay
ThrottleElapsed(t, last, s) == t - last > delayMs(s)

\* the early return of analyzeConversation
AnalysisRefused(buffer) == Len(buffer) < 2 \/ analysisInProgress

\* analyzeConversation up to the await, on the buffer the callback left
analyzeConversation(buffer) ==
    IF AnalysisRefused(buffer)
    THEN UNCHANGED <<analysisInProgress, lastAnalysisTime, content, hidden, calls>>
    ELSE /\ analysisInProgress' = TRUE
         /\ lastAnalysisTime' = now
         /\ content' = "loading"
         /\ hidden' = FALSE
         /\ calls' = Append(calls, [stale |-> FALSE])

\* the body of the MutationObserver callback, for one batch of records
ObserverHandler(mutations, url) ==
    /\ observer
    /\ \E newMessages \in {extractNewMessages(mutations, url)} :
       \E buffer \in {KeepRecent(PushMessages(messageBuffer, newMessages),
                                 maxMessages(settings))} :
           IF ~isActive \/ analysisInProgress
           THEN /\ lastEvent' = Event("batch", newMessages, FALSE, "none", FALSE)
                /\ UNCHANGED <<messageBuffer, analysisInProgress,
                               lastAnalysisTime, content, hidden, calls>>
           ELSE IF newMessages = <<>>
           THEN /\ lastEvent' = Event("batch", newMessages, FALSE, "none", FALSE)
                /\ UNCHANGED <<messageBuffer, analysisInProgress,
                               lastAnalysisTime, content, hidden, calls>>
           ELSE /\ messageBuffer' = buffer
                /\ IF ThrottleElapsed(now, lastAnalysisTime, settings)
                      /\ Len(buffer) >= 2
                   THEN /\ analyzeConversation(buffer)
                        /\ lastEvent' = Event("batch", newMessages,
                                              ~AnalysisRefused(buffer),
                                              "none", FALSE)
                   ELSE /\ lastEvent' = Event("batch", newMessages, FALSE,
                                              "none", FALSE)
                        /\ UNCHANGED <<analysisInProgress, lastAnalysisTime,
                                       content, hidden, calls>>
    /\ UNCHANGED <<isActive, settings, consecutiveEmptyAnalyses, observer, now>>

\* the callback of the MutationObserver, as the page's DOM changes
ObserverCallback(mutations, url) ==
    /\ UNCHANGED componentVars
    /\ ObserverHandler(mutations, url)

(***************************************************************************)
(* The rest of analyzeConversation, once the remote call settles.          *)
(***************************************************************************)
RemoveAt(seq, i) == SubSeq(seq, 1, i - 1) \o SubSeq(seq, i + 1, Len(seq))

\* a streak that counts every result of level None, whoever is named
displayAnalysis_LevelOnly(analysis) ==
    \E parsed \in {parseAnalysis(analysis)} :
    \E streak \in {IF parsed.level = None
                    THEN consecutiveEmptyAnalyses + 1
                    ELSE 0} :
        /\ consecutiveEmptyAnalyses' = streak
        /\ content' = renderAnalysis(parsed, streak)
        /\ hidden' = FALSE

\* a streak that counts a result when its level or its person is None
displayAnalysis_EitherNone(analysis) ==
    \E parsed \in {parseAnalysis(analysis)} :
    \E streak \in {IF parsed.level = None \/ parsed.toxicPerson = None
                    THEN consecutiveEmptyAnalyses + 1
                    ELSE 0} :
        /\ consecutiveEmptyAnalyses' = streak
        /\ content' = renderAnalysis(parsed, streak)
        /\ hidden' = FALSE

\* displayAnalysis: the streak update and the render
displayAnalysis(analysis) ==
    \E parsed \in {parseAnalysis(analysis)} :
    \E streak \in {IF parsed.level = None /\ parsed.toxicPerson = None
                    THEN consecutiveEmptyAnalyses + 1
                    ELSE 0} :
        /\ consecutiveEmptyAnalyses' = streak
        /\ content' = renderAnalysis(parsed, streak)
        /\ hidden' = FALSE

\* a catch block that also resets the streak
showAnalysisError_ResetsStreak ==
    /\ content' = "error"
    /\ hidden' = FALSE
    /\ consecutiveEmptyAnalyses' = 0

\* the catch block of analyzeConversation: showError
showAnalysisError ==
    /\ content' = "error"
    /\ hidden' = FALSE
    /\ UNCHANGED consecutiveEmptyAnalyses

\* a finally block that runs on the success path only
SettleCall_NoFinallyOnError(i, response) ==
    /\ UNCHANGED componentVars
    /\ i \in 1..Len(calls)
    /\ IF sendToGeminiThrows(response)
       THEN /\ showAnalysisError
            /\ UNCHANGED analysisInProgress
       ELSE /\ displayAnalysis(response.text)
            /\ analysisInProgress' = FALSE
    /\ calls' = RemoveAt(calls, i)
    /\ lastEvent' = IF sendToGeminiThrows(response)
                    THEN Event("settle", <<>>, FALSE, "error", calls[i].stale)
                    ELSE Event("settle", <<>>, FALSE, "ok", calls[i].stale)
                            @@ [parsed |-> parseAnalysis(response.text)]
    /\ UNCHANGED <<isActive, settings, lastAnalysisTime, messageBuffer,
                   observer, now>>

\* a cycle that stamps lastAnalysisTime again when its call completes
SettleCall_StampsCompletion(i, response) ==
    /\ UNCHANGED componentVars
    /\ i \in 1..Len(calls)
    /\ IF sendToGeminiThrows(response)
       THEN showAnalysisError
       ELSE displayAnalysis(response.text)
    /\ analysisInProgress' = FALSE
    /\ lastAnalysisTime' = now
    /\ calls' = RemoveAt(calls, i)
    /\ lastEvent' = IF sendToGeminiThrows(response)
                    THEN Event("settle", <<>>, FALSE, "error", calls[i].stale)
                    ELSE Event("settle", <<>>, FALSE, "ok", calls[i].stale)
                            @@ [parsed |-> parseAnalysis(response.text)]
    /\ UNCHANGED <<isActive, settings, messageBuffer, observer, now>>

\* a finally block that runs a queued trigger once the gate is released
SettleCall_Requeues(i, response) ==
    /\ UNCHANGED componentVars
    /\ i \in 1..Len(calls)
    /\ IF sendToGeminiThrows(response)
       THEN showAnalysisError
       ELSE \E parsed \in {parseAnalysis(response.text)} :
            \E streak \in {IF parsed.level = None /\ parsed.toxicPerson = None
                            THEN consecutiveEmptyAnalyses + 1
                            ELSE 0} :
                /\ consecutiveEmptyAnalyses' = streak
                /\ content' = renderAnalysis(parsed, streak)
                /\ hidden' = FALSE
    /\ IF isActive /\ Len(messageBuffer) >= 2
          /\ ThrottleElapsed(now, lastAnalysisTime, settings)
       THEN /\ analysisInProgress' = TRUE
            /\ lastAnalysisTime' = now
            /\ calls' = Append(RemoveAt(calls, i), [stale |-> FALSE])
       ELSE /\ analysisInProgress' = FALSE
            /\ calls' = RemoveAt(calls, i)
            /\ UNCHANGED lastAnalysisTime
    /\ lastEvent' = IF sendToGeminiThrows(response)
                    THEN Event("settle", <<>>, FALSE, "error", calls[i].stale)
                    ELSE Event("settle", <<>>, FALSE, "ok", calls[i].stale)
                            @@ [parsed |-> parseAnalysis(response.text)]
    /\ UNCHANGED <<isActive, settings, messageBuffer, observer, now>>

\* the await of sendToGemini returns or throws; try, catch and finally run
SettleCall(i, response) ==
    /\ UNCHANGED componentVars
    /\ i \in 1..Len(calls)
    /\ IF sendToGeminiThrows(response)
       THEN showAnalysisError
       ELSE displayAnalysis(response.text)
    /\ analysisInProgress' = FALSE
    /\ calls' = RemoveAt(calls, i)
    /\ lastEvent' = IF sendToGeminiThrows(response)
                    THEN Event("settle", <<>>, FALSE, "error", calls[i].stale)
                    ELSE Event("settle", <<>>, FALSE, "ok", calls[i].stale)
                            @@ [parsed |-> parseAnalysis(response.text)]
    /\ UNCHANGED <<isActive, settings, lastAnalysisTime, messageBuffer,
                   observer, now>>

(***************************************************************************)
(* The close button and the clock.                                         *)
(***************************************************************************)
\* the click listener of .toxicity-close: hideIndicator
CloseClick ==
    /\ UNCHANGED componentVars
    /\ hidden' = TRUE
    /\ lastEvent' = Event("close", <<>>, FALSE, "none", FALSE)
    /\ UNCHANGED <<isActive, settings, lastAnalysisTime, messageBuffer,
                   analysisInProgress, consecutiveEmptyAnalyses, observer,
                   content, now, calls>>

Tick ==
    /\ UNCHANGED componentVars
    /\ now < StartTime + MaxTicks * TickMs
    /\ now' = now + TickMs
    /\ lastEvent' = Event("tick", <<>>, FALSE, "none", FALSE)
    /\ UNCHANGED <<isActive, settings, lastAnalysisTime, messageBuffer,
                   analysisInProgress, consecutiveEmptyAnalyses, observer,
                   hidden, content, calls>>

Next ==
    \/ \E s \in SettingsChoices : startAnalysis(s)
    \/ stopAnalysis
    \/ \E mutations \in Batches, url \in Urls : ObserverCallback(mutations, url)
    \/ \E i \in 1..Len(calls), response \in Responses : SettleCall(i, response)
    \/ CloseClick
    \/ Tick

Spec == Init /\ [][Next]_vars

(***************************************************************************)
(* parseAnalysis on its own: a text is drawn, then parsed.                 *)
(***************************************************************************)
analyzerVars ==
    <<isActive, settings, lastAnalysisTime, messageBuffer, analysisInProgress,
      consecutiveEmptyAnalyses, observer, hidden, content, now, calls, lastEvent>>

\* the longest free text, in lines
MaxLines == 2

Severe == <<"S", "e", "v", "e", "r", "e">>
LowerLow == <<"l", "o", "w">>
HighRisk == <<"H", "i", "g", "h", " ", "r", "i", "s", "k">>
PersonC == <<"P", "e", "r", "s", "o", "n", " ", "C">>
LowerPersonA == <<"p", "e", "r", "s", "o", "n", " ", "a">>
LowerLevelLabel == <<"l", "e", "v", "e", "l", ":">>
NoteLabel == <<"N", "o", "t", "e", ":">>
Teasing == <<"t", "e", "a", "s", "i", "n", "g">>
InsultsItem == <<"i", "n", "s", "u", "l", "t", "s">>
SarcasmItem == <<"s", "a", "r", "c", "a", "s", "m">>
KeepsInterrupting ==
    <<"k", "e", "e", "p", "s", " ", "i", "n", "t", "e", "r", "r", "u", "p",
      "t", "i", "n", "g">>
LetEachOtherFinish ==
    <<"l", "e", "t", " ", "e", "a", "c", "h", " ", "o", "t", "h", "e", "r",
      " ", "f", "i", "n", "i", "s", "h">>

NoToxicBehaviorsHere ==
    <<"N", "o", " ", "t", "o", "x", "i", "c", " ", "b", "e", "h", "a", "v",
      "i", "o", "r", "s", " ", "h", "e", "r", "e">>
LowerNoToxicBehaviors ==
    <<"n", "o", " ", "t", "o", "x", "i", "c", " ", "b", "e", "h", "a", "v",
      "i", "o", "r", "s">>

\* lines a reply may hold: blank, unlabelled, labels with values that are
\* recognized, unrecognized, empty, padded, or that hold a sentinel phrase
FreeLines ==
    { <<>>,
      <<" ", " ">>,
      Refusal,
      LevelLabel \o Sp \o High,
      <<" ">> \o LevelLabel \o Medium \o <<" ", "\r">>,
      LevelLabel \o Sp \o Severe,
      LevelLabel \o Sp \o LowerLow,
      LevelLabel \o Sp \o HighRisk,
      LevelLabel,
      LowerLevelLabel \o Sp \o High,
      NoteLabel \o Sp \o LevelLabel \o Sp \o High,
      ToxicPersonLabel \o Sp \o Both,
      ToxicPersonLabel \o Sp \o PersonC,
      ToxicPersonLabel \o Sp \o LowerPersonA,
      ToxicPersonLabel,
      BehaviorsLabel,
      BehaviorsLabel \o Sp \o <<",">>,
      ProblemLabel \o Sp,
      SuggestionLabel,
      BehaviorsLabel \o Sp \o InsultsItem \o <<",", " ">> \o SarcasmItem,
      BehaviorsLabel \o Sp \o NoToxicBehaviorsHere,
      BehaviorsLabel \o Sp \o LowerNoToxicBehaviors,
      ProblemLabel \o Sp \o CalledNames,
      ProblemLabel \o Sp \o <<"N", "o", "n", "e", ".", " ">>
          \o NoSignificantIssues \o <<" ", "f", "o", "u", "n", "d">>,
      SuggestionLabel \o Sp \o UseRespect,
      SuggestionLabel \o Sp \o KeepUpGoodCommunication \o <<"!">> }

FreeTexts ==
    UNION { { JoinLines(lines) : lines \in [1..n -> FreeLines] } :
              n \in 0..MaxLines }

\* replies written from five fields; loose is the padded layout
WrittenReplies ==
    { [level |-> High, toxicPerson |-> PersonA,
       behaviors |-> <<InsultsItem, SarcasmItem>>,
       problem |-> CalledNames, suggestion |-> UseRespect, loose |-> FALSE],
      [level |-> None, toxicPerson |-> Both,
       behaviors |-> <<Teasing, InsultsItem, SarcasmItem>>,
       problem |-> KeepsInterrupting, suggestion |-> LetEachOtherFinish,
       loose |-> TRUE] }

RECURSIVE JoinItems(_, _)
JoinItems(items, sep) ==
    IF items = <<>> THEN <<>>
    ELSE IF Len(items) = 1 THEN Head(items)
    ELSE Head(items) \o sep \o JoinItems(Tail(items), sep)

\* the k-th labelled line of a written reply
WriteLine(fields, k) ==
    LET label == <<LevelLabel, ToxicPersonLabel, BehaviorsLabel, ProblemLabel,
                   SuggestionLabel>>[k]
        value == <<fields.level,
                   fields.toxicPerson,
                   JoinItems(fields.behaviors,
                             IF fields.loose THEN <<" ", ",", " ", " ">>
                                             ELSE <<",", " ">>),
                   fields.problem,
                   fields.suggestion>>[k]
    IN  IF fields.loose
        THEN <<"\t", " ">> \o label \o (IF k % 2 = 0 THEN <<>> ELSE <<" ", " ">>)
                 \o value \o <<" ", "\r">>
        ELSE label \o Sp \o value

\* the orders the five labelled lines can come in
Orders == { order \in [1..5 -> 1..5] :
              \A i, j \in 1..5 : order[i] = order[j] => i = j }

\* the lines that may sit between the labelled ones; none at all is <<>>
ExtraLines ==
    { <<>>,
      << <<>> >>,
      <<Refusal>>,
      <<NoteLabel \o Sp \o LevelLabel \o Sp \o LowerLow>>,
      <<LowerLevelLabel \o Sp \o Medium>> }

\* the text of a reply: its five lines in the given order, extra put after
\* the first pos of them
WriteReply(fields, order, extra, pos) ==
    LET labelled == [i \in 1..5 |-> WriteLine(fields, order[i])]
    IN  JoinLines(SubSeq(labelled, 1, pos) \o extra \o SubSeq(labelled, pos + 1, 5))

ParserInit ==
    /\ Constructed
    /\ FilterIdle
    /\ HelpersIdle
    /\ RelayIdle
    /\ parsedRecord = <<>>
    /\ \/ /\ rawText \in FreeTexts
          /\ writtenFields = <<>>
       \/ \E fields \in WrittenReplies, order \in Orders,
             extra \in ExtraLines, pos \in 0..5 :
              /\ rawText = WriteReply(fields, order, extra, pos)
              /\ writtenFields = <<fields>>

\* displayAnalysis hands the text to parseAnalysis
ParseReply ==
    /\ parsedRecord = <<>>
    /\ \E result \in {parseAnalysis(rawText)} : parsedRecord' = <<result>>
    /\ UNCHANGED <<rawText, writtenFields>>
    /\ UNCHANGED <<analyzerVars, filterVars, conversation, apiResponse, relayVars>>

ParserNext == ParseReply

ParserSpec == ParserInit /\ [][ParserNext]_vars

(***************************************************************************)
(* isUserMessage on its own: one candidate text, handed to a started       *)
(* session as the text of one added element.                               *)
(***************************************************************************)
MaxTokens == 2

\* the words a candidate text is written from
FilterTokens ==
    { <<"h", "i">>,
      <<"h", "e", "l", "l", "o">>,
      <<"h", "t", "t", "p", "s", ":", "/", "/", "x", ".", "c", "o">>,
      <<"m", "e", "@", "x", ".", "c", "o">>,
      <<"1", "2", ":", "3", "0">>,
      <<"p", "m">> }

\* what stands between two words
FilterSeparators == { <<" ">>, <<" ", " ">>, <<"\t">> }

\* what stands before the first word and after the last
FilterPads == { <<>>, <<" ">> }

\* the words joined by one kind of separator
RECURSIVE JoinTokens(_, _)
JoinTokens(tokens, sep) ==
    IF tokens = <<>> THEN <<>>
    ELSE IF Len(tokens) = 1 THEN Head(tokens)
    ELSE Head(tokens) \o sep \o JoinTokens(Tail(tokens), sep)

\* the textContent values the filter is handed
FilterTexts ==
    { lead \o JoinTokens(tokens, sep) \o trail :
        lead \in FilterPads, trail \in FilterPads, sep \in FilterSeparators,
        tokens \in UNION {[1..n -> FilterTokens] : n \in 0..MaxTokens} }

FilterInit ==
    /\ Constructed
    /\ ParserIdle
    /\ HelpersIdle
    /\ RelayIdle
    /\ filterText \in FilterTexts
    /\ filterVerdict = <<>>

\* the observer callback for a batch that adds one element whose text is
\* filterText; the verdict of isUserMessage on that text is kept
JudgeMessage(url) ==
    /\ filterVerdict = <<>>
    /\ filterVerdict' = <<isUserMessage(filterText)>>
    /\ ObserverHandler(<<ChildList(<<ElementNode(filterText, <<>>)>>)>>, url)
    /\ UNCHANGED <<filterText, parserVars, conversation, apiResponse, relayVars>>

FilterNext ==
    \/ \E s \in SettingsChoices : startAnalysis(s)
    \/ \E url \in Urls : JudgeMessage(url)

FilterSpec == FilterInit /\ [][FilterNext]_vars

(***************************************************************************)
(* formatConversation on its own.                                          *)
(***************************************************************************)
MaxBuffer == 3

PersonALabel ==
    <<"P", "e", "r", "s", "o", "n", " ", "A", ":", " ">>

PersonBLabel ==
    <<"P", "e", "r", "s", "o", "n", " ", "B", ":", " ">>

\* `Person ${person}: ${msg}`, for the 0-based index of msg
LabelledEntry_BFirst(msg, index) ==
    (IF index % 2 = 0 THEN PersonBLabel ELSE PersonALabel) \o msg

LabelledEntry(msg, index) ==
    (IF index % 2 = 0 THEN PersonALabel ELSE PersonBLabel) \o msg

\* this.messageBuffer.map(...).join('\n')
formatConversation(buffer) ==
    JoinLines([i \in 1..Len(buffer) |-> LabelledEntry(buffer[i], i - 1)])

OkThen ==
    <<"o", "k", " ", "t", "h", "e", "n">>

\* the textContent of a message written on two lines
TwoLineMessage ==
    <<"s", "e", "e", " ", "y", "o", "u", "\n", "a", "t", " ", "n", "o", "o",
      "n">>

BufferedMessages == {HiThere, HowAreYou, FineThanks, OkThen, TwoLineMessage}

\* the buffers the observer callback can leave: accepted texts, no duplicates
FormatBuffers ==
    { b \in UNION {[1..n -> BufferedMessages] : n \in 0..MaxBuffer} :
        /\ \A i \in 1..Len(b) : isUserMessage(b[i])
        /\ \A i, j \in 1..Len(b) : b[i] = b[j] => i = j }

FormatInit ==
    /\ Constructed
    /\ ParserIdle
    /\ FilterIdle
    /\ RelayIdle
    /\ apiResponse = <<>>
    /\ \E b \in FormatBuffers : conversation = <<b>>

\* one call of formatConversation, on the buffer conversation[1]
FormatCall ==
    /\ Len(conversation) = 1
    /\ conversation' = Append(conversation, formatConversation(conversation[1]))
    /\ UNCHANGED <<analyzerVars, parserVars, filterVars, apiResponse, relayVars>>

FormatNext == FormatCall

FormatSpec == FormatInit /\ [][FormatNext]_vars

(***************************************************************************)
(* sendToGemini on its own: one response, fixed before the session runs.   *)
(***************************************************************************)
\* what the two awaits of sendToGemini can come back with: fetch or
\* response.json() rejects (no body is read), or a status and a body arrive
ClientResponses ==
    { [rejected |-> TRUE, ok |-> o, error |-> FALSE, text |-> <<>>] :
          o \in BOOLEAN }
    \cup
    [rejected : {FALSE}, ok : BOOLEAN, error : BOOLEAN,
     text : {<<>>, ToxicReply, CleanReply}]

\* the batches the session is handed
ClientBatches ==
    { <<ChildList(<<ElementNode(HiThere, <<>>)>>)>>,
      <<ChildList(<<ElementNode(HowAreYou, <<>>),
                    ElementNode(FineThanks, <<>>)>>)>> }

ClientInit ==
    /\ Constructed
    /\ ParserIdle
    /\ FilterIdle
    /\ RelayIdle
    /\ conversation = <<>>
    /\ \E response \in ClientResponses : apiResponse = <<response>>

ClientNext ==
    \/ \E s \in SettingsChoices : startAnalysis(s)
    \/ \E mutations \in ClientBatches : ObserverCallback(mutations, OtherUrl)
    \/ \E i \in 1..Len(calls) : SettleCall(i, apiResponse[1])

ClientSpec == ClientInit /\ [][ClientNext]_vars

(***************************************************************************)
(* RedditAnalysisReceiver: the socket relay and its indicator.             *)
(***************************************************************************)
MaxAttempts == 3
MaxPayloads == 3
MaxRelayTicks == 7

\* setTimeout(() => this.connect(), 5000)
ReconnectDelayMs == 5000

\* the auto-remove setTimeout of createAnalysisIndicator
DismissDelayMs == 30000

RelayInit ==
    /\ Constructed
    /\ ParserIdle
    /\ FilterIdle
    /\ HelpersIdle
    /\ RelayIdle

\* connect(): new WebSocket either throws, and the catch block logs, or
\* returns a socket that is connecting, with the four handlers set
connect(throws) ==
    /\ connectAttempts' = connectAttempts + 1
    /\ ws' = IF throws THEN "threw" ELSE "connecting"
    /\ UNCHANGED isConnected

\* new RedditAnalysisReceiver(), as the content script loads
ConstructReceiver(throws) ==
    /\ ws = "none"
    /\ connectAttempts = 0
    /\ connect(throws)
    /\ relayEvent' = "construct"
    /\ UNCHANGED <<reconnectTimers, indicator, indicatorBody, dismissTimers,
                   payloads, clock>>
    /\ UNCHANGED <<analyzerVars, parserVars, filterVars, conversation,
                   apiResponse>>

\* ws.onopen
OnOpen ==
    /\ ws = "connecting"
    /\ ws' = "open"
    /\ isConnected' = TRUE
    /\ relayEvent' = "open"
    /\ UNCHANGED <<reconnectTimers, connectAttempts, indicator, indicatorBody,
                   dismissTimers, payloads, clock>>
    /\ UNCHANGED <<analyzerVars, parserVars, filterVars, conversation,
                   apiResponse>>

\* an error handler that schedules a reconnect of its own
OnError_Reconnects ==
    /\ ws \in {"connecting", "open"}
    /\ ws' = "failing"
    /\ isConnected' = FALSE
    /\ reconnectTimers' = reconnectTimers \cup {clock + ReconnectDelayMs}
    /\ relayEvent' = "error"
    /\ UNCHANGED <<connectAttempts, indicator, indicatorBody, dismissTimers,
                   payloads, clock>>
    /\ UNCHANGED <<analyzerVars, parserVars, filterVars, conversation,
                   apiResponse>>

\* ws.onerror: the connection is failing and its close event is still to come
OnError ==
    /\ ws \in {"connecting", "open"}
    /\ ws' = "failing"
    /\ isConnected' = FALSE
    /\ relayEvent' = "error"
    /\ UNCHANGED <<reconnectTimers, connectAttempts, indicator, indicatorBody,
                   dismissTimers, payloads, clock>>
    /\ UNCHANGED <<analyzerVars, parserVars, filterVars, conversation,
                   apiResponse>>

\* ws.onclose, after an error or when the server ends an open connection
OnClose ==
    /\ ws \in {"open", "failing"}
    /\ ws' = "closed"
    /\ isConnected' = FALSE
    /\ reconnectTimers' = reconnectTimers \cup {clock + ReconnectDelayMs}
    /\ relayEvent' = "close"
    /\ UNCHANGED <<connectAttempts, indicator, indicatorBody, dismissTimers,
                   payloads, clock>>
    /\ UNCHANGED <<analyzerVars, parserVars, filterVars, conversation,
                   apiResponse>>

\* the timer callback () => this.connect()
ReconnectTimer(due, throws) ==
    /\ due \in reconnectTimers
    /\ due <= clock
    /\ connectAttempts < MaxAttempts
    /\ reconnectTimers' = reconnectTimers \ {due}
    /\ connect(throws)
    /\ relayEvent' = "reconnect"
    /\ UNCHANGED <<indicator, indicatorBody, dismissTimers, payloads, clock>>
    /\ UNCHANGED <<analyzerVars, parserVars, filterVars, conversation,
                   apiResponse>>

\* the kinds of frame the socket delivers
MessageKinds == {"reddit_analysis", "other", "invalid"}

\* createAnalysisIndicator: the indicator in the document is replaced by a
\* new one, and a timer is set that holds the new one
createAnalysisIndicator ==
    /\ indicator' = payloads + 1
    /\ indicatorBody' = TRUE
    /\ dismissTimers' = dismissTimers
                          \cup {[id |-> payloads + 1, due |-> clock + DismissDelayMs]}
    /\ payloads' = payloads + 1

\* ws.onmessage: JSON.parse throws on an invalid frame, other types are
\* ignored, a reddit_analysis payload is displayed
OnMessage(kind) ==
    /\ ws = "open"
    /\ payloads < MaxPayloads
    /\ IF kind = "reddit_analysis"
       THEN createAnalysisIndicator
       ELSE UNCHANGED <<indicator, indicatorBody, dismissTimers, payloads>>
    /\ relayEvent' = IF kind = "reddit_analysis" THEN "payload" ELSE "ignored"
    /\ UNCHANGED <<ws, isConnected, reconnectTimers, connectAttempts, clock>>
    /\ UNCHANGED <<analyzerVars, parserVars, filterVars, conversation,
                   apiResponse>>

\* an auto-remove that looks the indicator up in the document by its id
DismissTimer_ById(timer) ==
    /\ timer \in dismissTimers
    /\ timer.due <= clock
    /\ dismissTimers' = dismissTimers \ {timer}
    /\ indicator' = 0
    /\ indicatorBody' = FALSE
    /\ relayEvent' = "dismiss"
    /\ UNCHANGED <<ws, isConnected, reconnectTimers, connectAttempts, payloads,
                   clock>>
    /\ UNCHANGED <<analyzerVars, parserVars, filterVars, conversation,
                   apiResponse>>

\* the auto-remove callback: if (indicator.parentElement) indicator.remove(),
\* on the indicator the timer was set for
DismissTimer(timer) ==
    /\ timer \in dismissTimers
    /\ timer.due <= clock
    /\ dismissTimers' = dismissTimers \ {timer}
    /\ indicator' = IF indicator = timer.id THEN 0 ELSE indicator
    /\ indicatorBody' = IF indicator = timer.id THEN FALSE ELSE indicatorBody
    /\ relayEvent' = "dismiss"
    /\ UNCHANGED <<ws, isConnected, reconnectTimers, connectAttempts, payloads,
                   clock>>
    /\ UNCHANGED <<analyzerVars, parserVars, filterVars, conversation,
                   apiResponse>>

\* the close button: this.parentElement.parentElement.remove() takes the
\* styled box out of the indicator, which stays in the document
IndicatorCloseClick ==
    /\ indicator # 0
    /\ indicatorBody
    /\ indicatorBody' = FALSE
    /\ relayEvent' = "click"
    /\ UNCHANGED <<ws, isConnected, reconnectTimers, connectAttempts, indicator,
                   dismissTimers, payloads, clock>>
    /\ UNCHANGED <<analyzerVars, parserVars, filterVars, conversation,
                   apiResponse>>

\* time passes, up to the next timer that is due
RelayTick ==
    /\ clock < MaxRelayTicks * ReconnectDelayMs
    /\ \A due \in reconnectTimers : clock < due
    /\ \A timer \in dismissTimers : clock < timer.due
    /\ clock' = clock + ReconnectDelayMs
    /\ relayEvent' = "tick"
    /\ UNCHANGED <<ws, isConnected, reconnectTimers, connectAttempts, indicator,
                   indicatorBody, dismissTimers, payloads>>
    /\ UNCHANGED <<analyzerVars, parserVars, filterVars, conversation,
                   apiResponse>>

RelayNext ==
    \/ \E throws \in BOOLEAN : ConstructReceiver(throws)
    \/ OnOpen
    \/ OnError
    \/ OnClose
    \/ \E due \in reconnectTimers, throws \in BOOLEAN : ReconnectTimer(due, throws)
    \/ \E kind \in MessageKinds : OnMessage(kind)
    \/ \E timer \in dismissTimers : DismissTimer(timer)
    \/ IndicatorCloseClick
    \/ RelayTick

RelaySpec == RelayInit /\ [][RelayNext]_vars

TypeOK ==
    /\ isActive \in BOOLEAN
    /\ analysisInProgress \in BOOLEAN
    /\ observer \in BOOLEAN
    /\ hidden \in BOOLEAN
    /\ consecutiveEmptyAnalyses \in Nat
    /\ content \in {"listening", "message", "loading", "error", "detail", "healthy"}

(***************************************************************************)
(* Properties.                                                             *)
(***************************************************************************)
\* the capacity and the cooldown the current settings ask for
Capacity == IF settings.messageCount = 0
            THEN DefaultMessageCount
            ELSE settings.messageCount

CooldownMs == IF settings.analysisDelay = 0
              THEN DefaultAnalysisDelay * MsPerSecond
              ELSE settings.analysisDelay * MsPerSecond

\* the last n elements of seq, all of it when it is no longer than n
LastN(seq, n) ==
    IF Len(seq) <= n THEN seq ELSE SubSeq(seq, Len(seq) - n + 1, Len(seq))

\* the messages of msgs that are accepted and not yet in buffer, in order
Fresh(buffer, msgs) ==
    SelectSeq(msgs, LAMBDA m : ~ArrayIncludes(buffer, m) /\ isUserMessage(m))

\* this step is the observer callback running in an active session
BatchStep == lastEvent'.op = "batch" /\ isActive

\* this step settles a remote call
SettleStep == lastEvent'.op = "settle"

\* this step starts a remote call
CallStarted == Len(calls') = Len(calls) + 1

\* texts the filter rejects
NoiseTexts ==
    {<<>>, ClockText, OnlyTimeText, ShortText, OneWord, LinkText, MentionText,
     LongText}

\* C1: over every interleaving of start, stop, batches and call completions,
\* at most one remote classification call is outstanding at any time.
C1_AtMostOneCall == Len(calls) <= 1

\* C1 witness: after a stop and a restart with the old call still pending, a
\* batch with candidates has been handed to the observer callback.
C1_Witness ==
    /\ Len(calls) = 1
    /\ calls[1].stale
    /\ isActive
    /\ lastEvent.op = "batch"
    /\ lastEvent.newMessages # <<>>

\* C2: when a call that was outstanding at a stop later resolves successfully,
\* its result is discarded: the widget content and visibility and
\* consecutiveEmptyAnalyses are left as they were.
C2_StaleResultDiscarded ==
    [][(SettleStep /\ lastEvent'.stale /\ lastEvent'.outcome = "ok")
          => /\ content' = content
             /\ hidden' = hidden
             /\ consecutiveEmptyAnalyses' = consecutiveEmptyAnalyses]_vars

\* C3: a batch with at least one candidate, handed over in an active session,
\* fires an analysis cycle if and only if the buffer it leaves holds at least
\* 2 messages, no call is in flight and strictly more than the configured
\* delay has passed since lastAnalysisTime.
C3_FireIff ==
    [][(BatchStep /\ lastEvent'.newMessages # <<>>)
          => (CallStarted <=> /\ Len(messageBuffer') >= 2
                              /\ ~analysisInProgress
                              /\ now - lastAnalysisTime > CooldownMs)]_vars

\* C3 witness: a batch has fired a cycle.
C3_Witness ==
    /\ lastEvent.op = "batch"
    /\ lastEvent.fired
    /\ analysisInProgress
    /\ lastAnalysisTime = now

\* C4: a batch that arrives while a call is in flight in an active session
\* still updates the buffer: new accepted messages are appended and the
\* buffer is truncated to capacity.
C4_BufferUpdatedInFlight ==
    [][(BatchStep /\ analysisInProgress)
          => messageBuffer' =
                LastN(messageBuffer \o Fresh(messageBuffer, lastEvent'.newMessages),
                      Capacity)]_vars

\* C5: immediately after stopAnalysis the scheduler is Idle, even if a remote
\* call was outstanding.
C5_IdleAfterStop == lastEvent.op = "stop" => ~analysisInProgress

\* C6: between event handlers the buffer is never longer than the capacity of
\* the current settings.
C6_WithinCapacity == Len(messageBuffer) <= Capacity

\* C7: the buffer never contains two equal strings.
C7_NoDuplicates ==
    \A i, j \in 1..Len(messageBuffer) :
        messageBuffer[i] = messageBuffer[j] => i = j

\* C7 witness: a handled batch carried a message the buffer already held
\* (its first candidate sits in the buffer before an older message).
C7_Witness ==
    /\ lastEvent.op = "batch"
    /\ lastEvent.fired
    /\ Len(lastEvent.newMessages) = 2
    /\ Len(messageBuffer) = 3
    /\ messageBuffer[1] = lastEvent.newMessages[1]
    /\ messageBuffer[3] = lastEvent.newMessages[2]

\* C8: after a batch is processed the buffer is the last `capacity` elements
\* of the old buffer followed by the batch's accepted new messages.
C8_BufferAfterBatch ==
    [][(BatchStep /\ ~analysisInProgress)
          => messageBuffer' =
                LastN(messageBuffer \o Fresh(messageBuffer, lastEvent'.newMessages),
                      Capacity)]_vars

\* C9: append leaves the buffer alone for a message that is already in it or
\* that the filter rejects, and otherwise adds it at the end without
\* reordering; every element of the buffer passes isUserMessage.
C9_AppendOnlyAccepted ==
    /\ [](\A i \in 1..Len(messageBuffer) : isUserMessage(messageBuffer[i]))
    /\ [](\A msg \in NoiseTexts : PushMessage(messageBuffer, msg) = messageBuffer)
    /\ [](\A i \in 1..Len(messageBuffer) :
             PushMessage(messageBuffer, messageBuffer[i]) = messageBuffer)
    /\ [][BatchStep
            => \E dropped \in 0..Len(messageBuffer) :
                  LET kept == Len(messageBuffer) - dropped
                  IN  /\ kept <= Len(messageBuffer')
                      /\ SubSeq(messageBuffer', 1, kept)
                            = SubSeq(messageBuffer, dropped + 1, Len(messageBuffer))
                      /\ \A i \in (kept + 1)..Len(messageBuffer') :
                            /\ ~ArrayIncludes(messageBuffer, messageBuffer'[i])
                            /\ ArrayIncludes(lastEvent'.newMessages,
                                             messageBuffer'[i])]_vars

\* C9 witness: a handled batch has added a message behind an older one.
C9_Witness ==
    /\ lastEvent.op = "batch"
    /\ lastEvent.fired
    /\ Len(messageBuffer) >= 2
    /\ Len(lastEvent.newMessages) = 1
    /\ messageBuffer[Len(messageBuffer)] = lastEvent.newMessages[1]

\* C10: once the remote call of a fired cycle resolves, with a result or with
\* an error, analysisInProgress is false again; the flag is never set without
\* a call that can still resolve.
C10_GateReleased ==
    /\ [][SettleStep => ~analysisInProgress']_vars
    /\ [](analysisInProgress => calls # <<>>)

\* C10 witness: a failed call has settled and the scheduler is Idle.
C10_Witness ==
    /\ lastEvent.op = "settle"
    /\ lastEvent.outcome = "error"
    /\ ~analysisInProgress
    /\ isActive

\* this step settles a remote call that failed
FailedStep == SettleStep /\ lastEvent'.outcome = "error"

\* this step settles a remote call whose text was parsed
ParsedStep == SettleStep /\ lastEvent'.outcome = "ok"

\* the parsed result of this step names no toxicity and no person
CleanResult ==
    /\ lastEvent'.parsed.level = None
    /\ lastEvent'.parsed.toxicPerson = None

\* C11: a failed remote call does not stop the session: the widget shows the
\* error state, and isActive, messageBuffer and consecutiveEmptyAnalyses are
\* left as they were.
C11_FailureKeepsSession ==
    [][FailedStep
          => /\ content' = "error"
             /\ ~hidden'
             /\ isActive' = isActive
             /\ messageBuffer' = messageBuffer
             /\ consecutiveEmptyAnalyses' = consecutiveEmptyAnalyses]_vars

\* C11 witness: a call has failed in an active session that holds messages
\* and a streak of clean results.
C11_Witness ==
    /\ lastEvent.op = "settle"
    /\ lastEvent.outcome = "error"
    /\ isActive
    /\ content = "error"
    /\ ~hidden
    /\ Len(messageBuffer) >= 2
    /\ consecutiveEmptyAnalyses >= 1

\* C12: lastAnalysisTime is the time a cycle is triggered: a fired cycle sets
\* it to the current time, strictly more than the configured delay after the
\* previous trigger, and nothing else changes it, so the completion of a call,
\* however late, does not move it.
C12_StampedAtTrigger ==
    /\ [][CallStarted
            => /\ lastAnalysisTime' = now
               /\ now - lastAnalysisTime > CooldownMs]_vars
    /\ [][SettleStep => lastAnalysisTime' = lastAnalysisTime]_vars
    /\ [][lastAnalysisTime' # lastAnalysisTime => CallStarted]_vars

\* C12 witness: a cycle has fired after an earlier cycle whose call resolved.
C12_Witness ==
    /\ lastEvent.op = "batch"
    /\ lastEvent.fired
    /\ lastAnalysisTime = now
    /\ now > StartTime
    /\ consecutiveEmptyAnalyses >= 1

\* C13: immediately after stopAnalysis isActive is false, messageBuffer is
\* empty and consecutiveEmptyAnalyses is 0, whatever the state before.
C13_StopClears ==
    [][lastEvent'.op = "stop"
          => /\ ~isActive'
             /\ messageBuffer' = <<>>
             /\ consecutiveEmptyAnalyses' = 0]_vars

\* C13 witness: a stop has hit a session with a call in flight, whose buffer
\* held the messages of that cycle.
C13_Witness ==
    /\ lastEvent.op = "stop"
    /\ Len(calls) = 1
    /\ analysisInProgress
    /\ ~isActive
    /\ messageBuffer = <<>>

\* C14: the throttle starts afresh with every session: the first batch of a
\* session that leaves at least 2 messages in the buffer while no call is in
\* flight fires a cycle, however short the time since the last trigger of the
\* session before. (The buffer is empty at a start that follows a stop, so a
\* batch that finds it empty is the first to leave 2 messages.)
C14_ThrottleResetByStop ==
    [][(BatchStep /\ ~analysisInProgress /\ messageBuffer = <<>>
          /\ Len(messageBuffer') >= 2)
          => CallStarted]_vars

\* C15: settings are fixed for the duration of a session: while the session
\* stays active, the settings that batch processing reads are not replaced.
C15_SettingsFixedInSession ==
    [][(isActive /\ isActive') => settings' = settings]_vars

\* C16: a parsed result sets consecutiveEmptyAnalyses to its previous value
\* plus 1 when level and toxicPerson are both None and to 0 otherwise; a
\* failed call leaves the counter alone, and only a parsed result or a stop
\* changes it.
C16_StreakUpdate ==
    /\ [][ParsedStep
            => consecutiveEmptyAnalyses' =
                  IF CleanResult THEN consecutiveEmptyAnalyses + 1 ELSE 0]_vars
    /\ [][FailedStep
            => consecutiveEmptyAnalyses' = consecutiveEmptyAnalyses]_vars
    /\ [][consecutiveEmptyAnalyses' # consecutiveEmptyAnalyses
            => ParsedStep \/ lastEvent'.op = "stop"]_vars

\* C16 witness: a result of level None that names a person has left the
\* counter at 0.
C16_Witness ==
    /\ lastEvent.op = "settle"
    /\ lastEvent.outcome = "ok"
    /\ lastEvent.parsed.level = None
    /\ lastEvent.parsed.toxicPerson = PersonB
    /\ consecutiveEmptyAnalyses = 0
    /\ lastAnalysisTime > StartTime

\* C17: the second of two clean results in a row is rendered as the healthy
\* variant, chosen exactly when the counter has reached 2 and the level is
\* None; a clean result that follows a result that was not clean, or a stop,
\* or nothing, is rendered as the normal detail variant.
C17_HealthyOnSecondClean ==
    /\ [][(ParsedStep /\ CleanResult /\ consecutiveEmptyAnalyses >= 1)
            => content' = "healthy"]_vars
    /\ [][(ParsedStep /\ CleanResult /\ consecutiveEmptyAnalyses = 0)
            => content' = "detail"]_vars
    /\ [][ParsedStep
            => content' =
                  IF consecutiveEmptyAnalyses' >= 2
                     /\ lastEvent'.parsed.level = None
                  THEN "healthy"
                  ELSE "detail"]_vars

\* C17 witness: the second clean result in a row has been rendered.
C17_Witness ==
    /\ lastEvent.op = "settle"
    /\ lastEvent.outcome = "ok"
    /\ consecutiveEmptyAnalyses = 2
    /\ content = "healthy"
    /\ ~hidden

\* the five fields of an analysis result
ResultFields == {"level", "toxicPerson", "behaviors", "problem", "suggestion"}

AllowedLevels == {None, Low, Medium, High}

AllowedPersons == {PersonA, PersonB, Both, None}

\* the lines of text that carry the label, by position
LabelledLines(text, label) ==
    LET lines == Split(text, "\n")
    IN  {i \in 1..Len(lines) : StartsWith(Trim(lines[i]), label)}

\* the trimmed value of the last line of text that carries the label
LastValue(text, label) ==
    LET lines == Split(text, "\n")
        last == CHOOSE i \in LabelledLines(text, label) :
                    \A j \in LabelledLines(text, label) : j <= i
        clean == Trim(lines[last])
    IN  Trim(SubSeq(clean, Len(label) + 1, Len(clean)))

\* what a field with an allowed set must be for the text
ExpectedEnum(text, label, allowed) ==
    IF LabelledLines(text, label) # {} /\ LastValue(text, label) \in allowed
    THEN LastValue(text, label)
    ELSE None

\* a parse result that has all five fields, none of them empty
FullRecord(result) ==
    /\ DOMAIN result = ResultFields
    /\ result.level # <<>>
    /\ result.toxicPerson # <<>>
    /\ DOMAIN result.behaviors = 1..Len(result.behaviors)
    /\ \A i \in 1..Len(result.behaviors) : result.behaviors[i] # <<>>
    /\ result.problem # <<>>
    /\ result.suggestion # <<>>

\* C18: parseAnalysis is total on text: for every text, the empty one and
\* texts without labels, with unrecognized or with empty values included,
\* it has a value, and that value, like every result returned, has all five
\* fields, none of them empty.
C18_ParseTotal ==
    /\ FullRecord(parseAnalysis(rawText))
    /\ parsedRecord # <<>> => FullRecord(parsedRecord[1])

\* C18 witness: a text with an unrecognized level and an empty problem has
\* been parsed to the defaults.
C18_Witness ==
    /\ rawText = JoinLines(<<LevelLabel \o Sp \o Severe, ProblemLabel \o Sp>>)
    /\ parsedRecord = <<DefaultResult>>

\* C19: a reply that carries each of the five labels once, in any order, with
\* or without an extra or blank line, with a recognized level and person and
\* other values that are not empty and hold no sentinel, is parsed to exactly
\* the values written: level and person as written, the behaviors as the
\* trimmed items in order, problem and suggestion as the trimmed text.
C19_WrittenFieldsReturned ==
    (parsedRecord # <<>> /\ writtenFields # <<>>) =>
        parsedRecord[1] =
            [level |-> writtenFields[1].level,
             toxicPerson |-> writtenFields[1].toxicPerson,
             behaviors |-> writtenFields[1].behaviors,
             problem |-> writtenFields[1].problem,
             suggestion |-> writtenFields[1].suggestion]

\* C19 witness: a padded reply that starts with its Suggestion line and holds
\* an unlabelled line has been parsed.
C19_Witness ==
    /\ parsedRecord # <<>>
    /\ writtenFields # <<>>
    /\ writtenFields[1].loose
    /\ StartsWith(TrimStart(rawText), SuggestionLabel)
    /\ Includes(rawText, Refusal)
    /\ parsedRecord[1].behaviors = <<Teasing, InsultsItem, SarcasmItem>>

\* C20: for every text the level parsed is one of None, Low, Medium, High and
\* the person one of Person A, Person B, Both, None; each is the trimmed
\* value of the last line with its label when that value is allowed, and None
\* when it is not.
C20_EnumsValidated ==
    parsedRecord # <<>> =>
        /\ parsedRecord[1].level \in AllowedLevels
        /\ parsedRecord[1].toxicPerson \in AllowedPersons
        /\ parsedRecord[1].level = ExpectedEnum(rawText, LevelLabel, AllowedLevels)
        /\ parsedRecord[1].toxicPerson
              = ExpectedEnum(rawText, ToxicPersonLabel, AllowedPersons)

\* C20 witness: a Level line with an unrecognized value has followed one with
\* a recognized value, and the level parsed is None.
C20_Witness ==
    /\ rawText = JoinLines(<<LevelLabel \o Sp \o High, LevelLabel \o Sp \o Severe>>)
    /\ parsedRecord # <<>>
    /\ parsedRecord[1].level = None

\* the sentinel phrases, as the documentation of the reply format gives them
BehaviorsSentinel ==
    <<"N", "o", " ", "t", "o", "x", "i", "c", " ", "b", "e", "h", "a", "v",
      "i", "o", "r", "s">>
ProblemSentinel ==
    <<"N", "o", " ", "s", "i", "g", "n", "i", "f", "i", "c", "a", "n", "t",
      " ", "i", "s", "s", "u", "e", "s">>
SuggestionSentinel ==
    <<"K", "e", "e", "p", " ", "u", "p", " ", "t", "h", "e", " ", "g", "o",
      "o", "d", " ", "c", "o", "m", "m", "u", "n", "i", "c", "a", "t", "i",
      "o", "n">>

\* the trimmed value of line i of text, which carries the label
ValueAt(text, label, i) ==
    LET clean == Trim(Split(text, "\n")[i])
    IN  Trim(SubSeq(clean, Len(label) + 1, Len(clean)))

\* the lines of text whose value for the label is usable: not empty and
\* without the sentinel phrase
UsableLines(text, label, sentinel) ==
    {i \in LabelledLines(text, label) :
        /\ ValueAt(text, label, i) # <<>>
        /\ ~Includes(ValueAt(text, label, i), sentinel)}

\* the value of the last usable line, or the default when there is none
ExpectedValue(text, label, sentinel, default) ==
    LET usable == UsableLines(text, label, sentinel)
    IN  IF usable = {} THEN default
        ELSE ValueAt(text, label, CHOOSE i \in usable : \A j \in usable : j <= i)

\* the items of a comma-separated value, trimmed, the empty ones dropped
ItemsOf(value) ==
    LET parts == Split(value, ",")
    IN  SelectSeq([k \in 1..Len(parts) |-> Trim(parts[k])], LAMBDA b : b # <<>>)

\* C21: for Behaviors, Problem and Suggestion the value of a line is used only
\* when it is not empty and does not hold the field's sentinel phrase; when
\* no line of the text has such a value, a missing line included, the field
\* has its default.
C21_SentinelDefaults ==
    parsedRecord # <<>> =>
        /\ parsedRecord[1].behaviors =
              IF UsableLines(rawText, BehaviorsLabel, BehaviorsSentinel) = {}
              THEN <<NoToxicBehaviorsDetected>>
              ELSE ItemsOf(ExpectedValue(rawText, BehaviorsLabel,
                                         BehaviorsSentinel, <<>>))
        /\ parsedRecord[1].problem =
              ExpectedValue(rawText, ProblemLabel, ProblemSentinel,
                            NoSignificantIssues)
        /\ parsedRecord[1].suggestion =
              ExpectedValue(rawText, SuggestionLabel, SuggestionSentinel,
                            KeepUpGoodCommunication)

\* C21 witness: a text whose Behaviors value holds the sentinel inside a
\* longer phrase and whose Suggestion value is empty has been parsed, and both
\* fields have their defaults.
C21_Witness ==
    /\ rawText = JoinLines(<<BehaviorsLabel \o Sp \o NoToxicBehaviorsHere,
                             SuggestionLabel>>)
    /\ parsedRecord # <<>>
    /\ parsedRecord[1].behaviors = <<NoToxicBehaviorsDetected>>
    /\ parsedRecord[1].suggestion = KeepUpGoodCommunication

\* the number of whitespace-delimited tokens of a text
TokenCount(text) ==
    Cardinality({i \in 1..Len(text) :
                    /\ text[i] \notin Whitespace
                    /\ (i = 1 \/ text[i - 1] \in Whitespace)})

\* C22: isUserMessage returns false for every text that has fewer than 2
\* whitespace-delimited tokens, a single word with spaces around it included
C22_FewTokensRejected ==
    (filterVerdict # <<>> /\ TokenCount(filterText) < 2)
        => filterVerdict = <<FALSE>>

HasLinkOrMention(text) ==
    Includes(text, <<"h", "t", "t", "p">>) \/ Includes(text, <<"@">>)

\* C23: isUserMessage returns false for every text that contains "http" or
\* "@", so no such text is in the buffer and no call is started over one
C23_LinksAndMentionsRejected ==
    /\ (filterVerdict # <<>> /\ HasLinkOrMention(filterText))
          => filterVerdict = <<FALSE>>
    /\ \A i \in 1..Len(messageBuffer) : ~HasLinkOrMention(messageBuffer[i])
    /\ HasLinkOrMention(filterText) => (messageBuffer = <<>> /\ calls = <<>>)

\* a started session was handed "hi me@x.co" and kept nothing of it
C23_Witness ==
    /\ isActive
    /\ filterText = <<"h", "i", " ", "m", "e", "@", "x", ".", "c", "o">>
    /\ filterVerdict = <<FALSE>>
    /\ lastEvent.op = "batch"
    /\ messageBuffer = <<>>

\* the lines of a transcript
TranscriptLines(text) == IF text = <<>> THEN <<>> ELSE Split(text, "\n")

\* "Person A: " or "Person B: ", by the parity of a 0-based index
ParityLabel(index) ==
    IF index % 2 = 0
    THEN <<"P", "e", "r", "s", "o", "n", " ", "A", ":", " ">>
    ELSE <<"P", "e", "r", "s", "o", "n", " ", "B", ":", " ">>

\* where the entry of buffer[i] starts in the transcript, less one
RECURSIVE EntryOffset(_, _)
EntryOffset(buffer, i) ==
    IF i = 1 THEN 0
    ELSE EntryOffset(buffer, i - 1) + Len(ParityLabel(i - 2))
            + Len(buffer[i - 1]) + 1

HasLineBreak(msg) == Includes(msg, <<"\n">>)

\* C28 as stated: the transcript has one line per buffered message, the i-th
\* line (0-based) being "Person A: " + buffer[i] for even i and
\* "Person B: " + buffer[i] for odd i
C28_OneLinePerMessage ==
    Len(conversation) = 2 =>
        LET buffer == conversation[1]
            lines == TranscriptLines(conversation[2])
        IN  /\ Len(lines) = Len(buffer)
            /\ \A i \in 1..Len(buffer) :
                  lines[i] = ParityLabel(i - 1) \o buffer[i]

\* C28, amended: the transcript is the entries "Person A: " + buffer[i]
\* (i even) and "Person B: " + buffer[i] (i odd) in buffer order, separated
\* by single line breaks, and it is one line per message when no buffered
\* message holds a line break
C28_ParityLabels ==
    Len(conversation) = 2 =>
        LET buffer == conversation[1]
            text == conversation[2]
            n == Len(buffer)
        IN  /\ Len(text) = IF n = 0 THEN 0
                           ELSE EntryOffset(buffer, n) + Len(ParityLabel(n - 1))
                                    + Len(buffer[n])
            /\ \A i \in 1..n :
                  /\ SubSeq(text, EntryOffset(buffer, i) + 1,
                            EntryOffset(buffer, i) + Len(ParityLabel(i - 1))
                                + Len(buffer[i]))
                        = ParityLabel(i - 1) \o buffer[i]
                  /\ i < n =>
                        text[EntryOffset(buffer, i + 1)] = "\n"
            /\ (\A i \in 1..n : ~HasLineBreak(buffer[i])) =>
                  /\ Len(TranscriptLines(text)) = n
                  /\ \A i \in 1..n :
                        TranscriptLines(text)[i] = ParityLabel(i - 1) \o buffer[i]

\* a transcript of three single-line messages, labelled A, B, A
C28_Witness ==
    /\ Len(conversation) = 2
    /\ conversation[1] = <<HiThere, HowAreYou, FineThanks>>
    /\ Len(TranscriptLines(conversation[2])) = 3

\* the response left no body to look at: fetch or response.json() rejected
NoBody(response) == response.rejected

\* the three failures of a response that did arrive
StatusOrBodyFailure(response) ==
    \/ ~response.ok
    \/ response.error
    \/ response.text = <<>>

\* nothing was parsed or rendered by this step: the widget shows the error
NothingRendered ==
    /\ content' = "error"
    /\ "parsed" \notin DOMAIN lastEvent'
    /\ consecutiveEmptyAnalyses' = consecutiveEmptyAnalyses

\* C27 as stated: sendToGemini fails in exactly three cases, a non-success
\* status, an error payload in the body, or no text at
\* candidates[0].content.parts[0].text, and returns the text otherwise
C27_ThreeFailureCases ==
    [][SettleStep =>
          (lastEvent'.outcome = "error"
              <=> (~NoBody(apiResponse[1])
                     /\ StatusOrBodyFailure(apiResponse[1])))]_vars

\* C27, amended: sendToGemini fails when the request or the reading of the
\* body rejects, on a non-success status, on an error payload, or when the
\* text is absent or empty, and returns the text in every other case; a
\* failed cycle parses and renders no result, a successful one renders the
\* parsed text
C27_FailureCases ==
    [][SettleStep =>
          /\ lastEvent'.outcome = "error"
                <=> (NoBody(apiResponse[1])
                       \/ StatusOrBodyFailure(apiResponse[1]))
          /\ lastEvent'.outcome = "error" => NothingRendered
          /\ lastEvent'.outcome # "error" =>
                /\ lastEvent'.parsed = parseAnalysis(apiResponse[1].text)
                /\ content' \in {"detail", "healthy"}]_vars

\* a cycle whose request was rejected has settled with the error shown
C27_Witness ==
    /\ lastEvent.op = "settle"
    /\ lastEvent.outcome = "error"
    /\ apiResponse # <<>>
    /\ apiResponse[1].rejected
    /\ content = "error"
    /\ ~analysisInProgress

\* C24: the relay reconnects unconditionally: once a connection has closed or
\* a connection attempt has failed, a new attempt is pending, due no later
\* than 5 seconds after, whatever the number of attempts made so far
C24_AlwaysReconnects ==
    ws \in {"closed", "threw"} =>
        \E due \in reconnectTimers : due <= clock + ReconnectDelayMs

\* the timer of this dismiss step
FiredTimers == dismissTimers \ dismissTimers'

\* C25: each payload's indicator is dismissed 30 seconds after it was
\* displayed if it is still shown: the shown indicator always has its own
\* timer pending, a timer fires 30 seconds after its payload was displayed and
\* removes that payload's indicator only, and an indicator leaves the document
\* only through its own timer or through the payload that replaces it
C25_IndependentDismissal ==
    /\ [](indicator # 0 =>
            \E timer \in dismissTimers :
                /\ timer.id = indicator
                /\ clock <= timer.due)
    /\ [][relayEvent' = "payload" =>
            /\ indicator' = payloads'
            /\ [id |-> indicator', due |-> clock + DismissDelayMs]
                  \in dismissTimers'
            /\ dismissTimers \subseteq dismissTimers']_vars
    /\ [][relayEvent' = "dismiss" =>
            \A timer \in FiredTimers :
                /\ timer.due = clock
                /\ indicator' = IF indicator = timer.id THEN 0 ELSE indicator]_vars
    /\ [][(indicator # 0 /\ indicator' # indicator) =>
            \/ relayEvent' = "payload"
            \/ /\ relayEvent' = "dismiss"
               /\ \E timer \in FiredTimers : timer.id = indicator]_vars

\* the timer of the first payload has fired while a later payload, shown for
\* less than 30 seconds, is still in the document
C25_Witness ==
    /\ relayEvent = "dismiss"
    /\ indicator > 1
    /\ [id |-> 1, due |-> clock] \notin dismissTimers
    /\ \E timer \in dismissTimers : timer.id = indicator /\ clock < timer.due
    /\ clock = DismissDelayMs

\* this batch meets the trigger condition: the session is active, no call is
\* in flight, the batch holds a candidate, the buffer it leaves holds at least
\* 2 messages and the cooldown has elapsed
QualifyingBatch ==
    /\ BatchStep
    /\ ~analysisInProgress
    /\ lastEvent'.newMessages # <<>>
    /\ Len(messageBuffer') >= 2
    /\ now - lastAnalysisTime > CooldownMs

\* C26: suppressed triggers are not queued: the step that settles a call
\* starts no call, a call starts only in a step that processes a mutation
\* batch, and a batch that qualifies after the cooldown starts one
C26_NoQueuedTrigger ==
    /\ [][SettleStep => (~CallStarted /\ ~analysisInProgress')]_vars
    /\ [][CallStarted => BatchStep]_vars
    /\ [][QualifyingBatch => CallStarted]_vars

\* a call has settled in an active session whose buffer and cooldown meet the
\* trigger condition, and nothing is in flight
C26_Witness ==
    /\ lastEvent.op = "settle"
    /\ isActive
    /\ ~analysisInProgress
    /\ calls = <<>>
    /\ Len(messageBuffer) >= 2
    /\ now - lastAnalysisTime > CooldownMs

\* C29: a mutation batch that adds no message to the buffer, because it
\* yields no candidate or every candidate is buffered already, starts no
\* analysis cycle
C29_NoFireWithoutNewMessage ==
    [][(lastEvent'.op = "batch"
          /\ PushMessages(messageBuffer, lastEvent'.newMessages) = messageBuffer)
          => ~CallStarted]_vars

\* C30: while the session is not active the buffer is empty, and no batch and
\* no call completion adds to it
C30_InactiveBufferEmpty ==
    /\ [](~isActive => messageBuffer = <<>>)
    /\ [][(~isActive /\ lastEvent'.op \in {"batch", "settle"})
            => messageBuffer' = messageBuffer]_vars

\* a call that the session's stop left behind has completed while inactive
C30_Witness ==
    /\ ~isActive
    /\ lastEvent.op = "settle"
    /\ lastEvent.stale
    /\ messageBuffer = <<>>

\* C31: consecutiveEmptyAnalyses is 0 whenever the session is not active, so
\* no streak is carried from one session into the next
C31_NoStreakWhileInactive ==
    ~isActive => consecutiveEmptyAnalyses = 0

\* C32: the healthy variant is rendered only for a result whose level and
\* toxicPerson are both None; a result of level None that names a person is
\* rendered as the normal detail variant
C32_HealthyOnlyWhenClean ==
    /\ [][(ParsedStep /\ content' = "healthy") => CleanResult]_vars
    /\ [][(ParsedStep /\ lastEvent'.parsed.level = None
             /\ lastEvent'.parsed.toxicPerson # None)
            => content' = "detail"]_vars

\* a result of level None that names Person B has come right after a clean
\* result and is rendered as detail
C32_Witness ==
    /\ lastEvent.op = "settle"
    /\ lastEvent.outcome = "ok"
    /\ lastEvent.parsed.level = None
    /\ lastEvent.parsed.toxicPerson = PersonB
    /\ content = "detail"
    /\ lastAnalysisTime = StartTime + MaxTicks * TickMs

\* C33: the behaviors list that parseAnalysis returns is never empty, a
\* Behaviors line of only commas and spaces included
C33_BehaviorsNeverEmpty ==
    parsedRecord # <<>> => parsedRecord[1].behaviors # <<>>

\* the sockets of the relay that are connecting, open, or failing and not
\* yet closed
LiveSockets == IF ws \in {"connecting", "open", "failing"} THEN 1 ELSE 0

\* C34: the relay has at most one connection or pending reconnect at a time:
\* live sockets and scheduled reconnect timers number at most 1 together,
\* and connect() runs only when no socket is live
C34_SingleConnection ==
    /\ [](LiveSockets + Cardinality(reconnectTimers) <= 1)
    /\ [][connectAttempts' # connectAttempts
            => (LiveSockets = 0 /\ reconnectTimers' = {})]_vars

\* the reconnect timer of a closed connection has fired and the second
\* socket is connecting, with no timer left
C34_Witness ==
    /\ relayEvent = "reconnect"
    /\ ws = "connecting"
    /\ connectAttempts = 2
    /\ reconnectTimers = {}

====
